---- MODULE Spec2Model ----
(***************************************************************************)
(* A model of dino_chrome_bot/main.py: DinoParams, DinoBot and main().     *)
(*                                                                         *)
(* Python floats are modelled as exact rationals <<n, d>> with d > 0 in    *)
(* lowest terms.  time.perf_counter() is modelled by the variable clock,   *)
(* the last reading in whole seconds; every call returns the reading       *)
(* before it plus a step drawn from Steps.  A frame is modelled by what    *)
(* the code reads from it: the best template-matching score and location   *)
(* of each template, the number of pixels equal to 255 in the sky region,  *)
(* and the number of white pixels of each thresholded obstacle band.       *)
(***************************************************************************)
EXTENDS Integers, Sequences, FiniteSets, TLC

VARIABLES
    pc,               \* position in main(): "start", "constructed", "opened", "play", "raised"
    template_day,     \* self.template_day: None or [h, w]
    template_night,   \* self.template_night: None or [h, w]
    monitor,          \* sct.monitors[self.screen_id]: [width, height]
    skip_initialize,  \* self.skip_initialize
    top_left,         \* self.top_left: <<x, y>>
    template_h,       \* self.template_h
    template_w,       \* self.template_w
    last_button_push, \* self.last_button_push
    start_time,       \* self.start_time
    clock,            \* last value returned by time.perf_counter()
    tick,             \* the branch the last iteration of play() took: "none" before
                      \* the first, then "search", "found", "track" or "raise"
    events,           \* key events, sleeps and prints of the last step, in order
    locals            \* play()'s local variables: a function from the names
                      \* assigned so far to their values

vars == <<pc, template_day, template_night, monitor, skip_initialize, top_left,
          template_h, template_w, last_button_push, start_time, clock, tick,
          events, locals>>

\* Python's None.
None == [none |-> TRUE]

----------------------------------------------------------------------------
(* Bounds of the model *)

\* Largest clock reading at which an iteration of play() may still begin.
MaxClock == 33
\* Largest time that passes before a tracking iteration checked alone.
MaxElapsed == 32

----------------------------------------------------------------------------
(* Exact rational arithmetic standing for Python float arithmetic *)

RECURSIVE Gcd(_, _)
Gcd(a, b) == IF b = 0 THEN a ELSE Gcd(b, a % b)

Abs(a) == IF a < 0 THEN -a ELSE a

Rat(n, d) ==
    LET g == Gcd(Abs(n), Abs(d))
        s == IF d < 0 THEN -1 ELSE 1
    IN  <<(s * n) \div g, (s * d) \div g>>

FromInt(i) == <<i, 1>>
RatAdd(a, b) == Rat(a[1] * b[2] + b[1] * a[2], a[2] * b[2])
RatSub(a, b) == Rat(a[1] * b[2] - b[1] * a[2], a[2] * b[2])
RatMul(a, b) == Rat(a[1] * b[1], a[2] * b[2])
RatDiv(a, b) == Rat(a[1] * b[2], a[2] * b[1])
RatLt(a, b) == a[1] * b[2] < b[1] * a[2]
RatLe(a, b) == a[1] * b[2] <= b[1] * a[2]

\* Python's int() of a float: truncation towards zero.
PyInt(a) == IF a[1] >= 0 THEN a[1] \div a[2] ELSE -((-a[1]) \div a[2])

Max(a, b) == IF a >= b THEN a ELSE b
Min(a, b) == IF a <= b THEN a ELSE b

----------------------------------------------------------------------------
(* DinoParams: the defaults, which main() passes unchanged *)

confidence_threshold == <<4, 5>>
day_threshold == <<1, 2>>
obstacle_min_contrast == <<1, 10>>
obstacle_max_contrast == <<9, 10>>
late_game_time == 30
idle_reset_time == 7
duck_time == <<2, 5>>
post_jump_duck_sleep == <<1, 50>>
init_scale_w == <<3, 2>>
late_scale_w == <<4, 1>>

\* DinoBot.__init__: the resolution the templates were designed for.
orig_width == 1920
orig_height == 1080

\* main(): bot.verify_chrome_dino(wait_seconds=5.0)
wait_seconds == 5

----------------------------------------------------------------------------
(* Inputs: what the environment can hand to the program *)

\* sct.monitors[screen_id]: the resolution of the captured monitor.
Monitors == {[width |-> 960, height |-> 540]}

\* The template image as stored (its shape).
DinoImage == [h |-> 4, w |-> 40]

\* cv2.imread of a template file: None when the file is missing or is not an
\* image, else the image.
ImreadResults == {None, DinoImage}

\* The advance of time.perf_counter() from one call to the next, in seconds.
Steps == {0, 7, 8}

\* cv2.minMaxLoc of cv2.matchTemplate(frame, template, TM_CCOEFF_NORMED):
\* the best score, and its location inside the result matrix.
Scores == {<<0, 1>>, <<3, 4>>, <<4, 5>>}

MatchLocs(mon, t) == {<<0, 0>>, <<mon.width - 2 * t.w, mon.height - t.h>>}

MatchResults(mon, t) ==
    IF t = None THEN {None}
    ELSE {[val |-> v, loc |-> l] : v \in Scores, l \in MatchLocs(mon, t)}

\* Number of pixels equal to 255 in a sky region of the given size.
SkyWhites(size) == {size \div 2, (7 * size) \div 10}

\* Number of pixels equal to 255 in a thresholded band of the given size:
\* the frames shown to the running loop, and the finer set shown when one
\* tracking iteration is checked alone.
LoopWhites(size) == {0, size \div 2}
EvalWhites(size) == {0, size \div 10, size \div 2, (9 * size) \div 10, size}
BandWhites(fine, size) == IF fine THEN EvalWhites(size) ELSE LoopWhites(size)

----------------------------------------------------------------------------
(* DinoBot._resize_template *)

ResizeTemplate(template, mon) ==
    IF template = None THEN None
    ELSE LET sw == RatDiv(FromInt(mon.width), FromInt(orig_width))
             sh == RatDiv(FromInt(mon.height), FromInt(orig_height))
             new_width == PyInt(RatMul(FromInt(template.w), sw))
             new_height == PyInt(RatMul(FromInt(template.h), sh))
         IN  [h |-> Max(1, new_height), w |-> Max(1, new_width)]

----------------------------------------------------------------------------
(* DinoBot._find_dinosaur *)

\* One pass of the loop body over a template, given the running best.
FindStep(best, template, res) ==
    IF template = None THEN best
    ELSE IF RatLt(best.max_val, res.val)
         THEN [max_val |-> res.val, top_left |-> res.loc,
               template_h |-> template.h, template_w |-> template.w]
         ELSE best

\* Variant: the score must exceed the threshold.
Found_Strict(max_val) == RatLt(confidence_threshold, max_val)

Found(max_val) == RatLe(confidence_threshold, max_val)

\* res_night, res_day: the matching results of the two templates on the frame.
FindDinosaur(t_night, t_day, res_night, res_day) ==
    LET init == [max_val |-> <<0, 1>>, top_left |-> <<0, 0>>,
                 template_h |-> 0, template_w |-> 0]
        after_night == FindStep(init, t_night, res_night)
        best == FindStep(after_night, t_day, res_day)
    IN  [found |-> Found(best.max_val), max_val |-> best.max_val,
         top_left |-> best.top_left, template_h |-> best.template_h,
         template_w |-> best.template_w]

----------------------------------------------------------------------------
(* numpy basic slicing a[start:stop] on an axis of length len *)

SliceIndex(i, len) == IF i < 0 THEN Max(i + len, 0) ELSE Min(i, len)

SliceLen(start, stop, len) ==
    Max(SliceIndex(stop, len) - SliceIndex(start, len), 0)

----------------------------------------------------------------------------
(* DinoBot._is_day_scene *)

SkySize(tl, th, mon) ==
    LET sky_y_start == Max(tl[2] - th, 0)
        sky_y_end == tl[2]
    IN  SliceLen(sky_y_start, sky_y_end, mon.height) * mon.width

\* whites: the number of pixels of the sky region equal to 255.
IsDayScene(size, whites) ==
    IF size = 0 THEN FALSE
    ELSE RatLt(day_threshold, Rat(whites, size))

----------------------------------------------------------------------------
(* DinoBot._get_dynamic_scale_w *)

\* Variant: the interpolation is not capped at late_game_time.
GetDynamicScaleW_NoClamp(elapsed) ==
    LET ratio == RatDiv(FromInt(elapsed), FromInt(late_game_time))
    IN  RatAdd(init_scale_w, RatMul(ratio, RatSub(late_scale_w, init_scale_w)))

GetDynamicScaleW(elapsed) ==
    IF elapsed >= late_game_time THEN late_scale_w
    ELSE LET ratio == RatDiv(FromInt(elapsed), FromInt(late_game_time))
         IN  RatAdd(init_scale_w, RatMul(ratio, RatSub(late_scale_w, init_scale_w)))

----------------------------------------------------------------------------
(* DinoBot._threshold_obstacle_frames *)

\* The sizes (pixel counts) of the two slices of frame_gray.
ObstacleFrameSizes(tl, th, tw, scale, mon) ==
    LET x == FromInt(tl[1])
        y == FromInt(tl[2])
        new_top_left == RatSub(y, RatMul(<<1, 2>>, FromInt(th)))
        new_h == RatMul(<<3, 2>>, FromInt(th))
        third == RatDiv(new_h, FromInt(3))
        two_thirds == RatDiv(RatMul(FromInt(2), new_h), FromInt(3))
        r0 == PyInt(RatAdd(new_top_left, third))
        r1 == PyInt(RatAdd(new_top_left, two_thirds))
        r2 == PyInt(RatAdd(new_top_left, new_h))
        c0 == PyInt(RatAdd(x, RatMul(RatSub(scale, FromInt(1)), FromInt(tw))))
        c1 == PyInt(RatAdd(x, RatMul(scale, FromInt(tw))))
        cols == SliceLen(c0, c1, mon.width)
    IN  [middle |-> SliceLen(r0, r1, mon.height) * cols,
         bottom |-> SliceLen(r1, r2, mon.height) * cols]

\* cv2.threshold(band, ...)[1] as Python sees it.  For a band with pixels it
\* is a 0/255 image of the same size.  For an empty band the source does not
\* decide the outcome: OpenCV may reject the input (Cv2Error), hand back None
\* for the empty result matrix, or hand back an empty array.
Cv2Error == [error |-> TRUE]

Cv2Threshold(size, fine) ==
    IF size = 0 THEN {Cv2Error, None, [size |-> 0, white |-> 0]}
    ELSE {[size |-> size, white |-> k] : k \in BandWhites(fine, size)}

----------------------------------------------------------------------------
(* DinoBot._compute_contrasts, for one frame *)

\* None has no attribute size: the caller raises before this is evaluated.
ContrastRaises(f) == f = None

ComputeContrast(f) ==
    IF f.size = 0 THEN <<0, 1>> ELSE Rat(f.white, f.size)

----------------------------------------------------------------------------
(* DinoBot.play: the pieces of one iteration *)

\* Variant: the two comparisons are not strict.
IsObstacle_Inclusive(contrast) ==
    RatLe(obstacle_min_contrast, contrast) /\ RatLe(contrast, obstacle_max_contrast)

IsObstacle(contrast) ==
    RatLt(obstacle_min_contrast, contrast) /\ RatLt(contrast, obstacle_max_contrast)

\* Variant: the late-game branch is missing, a bottom obstacle is always one jump.
ActionEvents_AlwaysJump(is_obstacle_bottom, is_obstacle_middle, elapsed) ==
    IF is_obstacle_bottom
    THEN << <<"press", "space">> >>
    ELSE IF is_obstacle_middle
         THEN << <<"keyDown", "down">>, <<"sleep", duck_time>>, <<"keyUp", "down">> >>
         ELSE << >>

\* Variant: the middle band is tested before the bottom band.
ActionEvents_MiddleFirst(is_obstacle_bottom, is_obstacle_middle, elapsed) ==
    IF is_obstacle_middle
    THEN << <<"keyDown", "down">>, <<"sleep", duck_time>>, <<"keyUp", "down">> >>
    ELSE IF is_obstacle_bottom
         THEN IF elapsed >= late_game_time
              THEN << <<"keyDown", "space">>, <<"keyUp", "space">>,
                      <<"sleep", post_jump_duck_sleep>>,
                      <<"keyDown", "down">>, <<"keyUp", "down">> >>
              ELSE << <<"press", "space">> >>
         ELSE << >>

\* Events of section "3. Input action".
ActionEvents(is_obstacle_bottom, is_obstacle_middle, elapsed) ==
    IF is_obstacle_bottom
    THEN IF elapsed >= late_game_time
         THEN << <<"keyDown", "space">>, <<"keyUp", "space">>,
                 <<"sleep", post_jump_duck_sleep>>,
                 <<"keyDown", "down">>, <<"keyUp", "down">> >>
         ELSE << <<"press", "space">> >>
    ELSE IF is_obstacle_middle
         THEN << <<"keyDown", "down">>, <<"sleep", duck_time>>, <<"keyUp", "down">> >>
         ELSE << >>

\* self.last_button_push after section "3. Input action".
ActionLastPush(is_obstacle_bottom, is_obstacle_middle, t_now, last) ==
    IF is_obstacle_bottom \/ is_obstacle_middle THEN t_now ELSE last

IdleTooLong(t_now, last) == (t_now - last) > idle_reset_time

IdleEvents == << <<"print", "Game frozen. Pressing 'space' ...">>, <<"press", "space">> >>

\* Variant: both fields take the reading made after the key press.
IdleReset_BothAfter(t_now, t_after) == [start_time |-> t_after, last_button_push |-> t_after]

\* The fields after the idle branch: t_now is the local now, t_after the
\* reading of time.perf_counter() taken after the key press.
IdleReset(t_now, t_after) == [start_time |-> t_after, last_button_push |-> t_now]

\* Variant: the flag is not consulted, every iteration localizes again.
Searching_Always == TRUE

\* "if not self.skip_initialize": the loop is still looking for the Dino.
Searching == ~skip_initialize

FoundEvents == << <<"press", "space">>, <<"print", "Dino found. Let's play!">> >>

\* Variant: the press is issued whether or not the Dino was found.
SearchEvents_Always(found) == FoundEvents

\* Events of section "1.": a press and a print when the Dino is found.
SearchEvents(found) == IF found THEN FoundEvents ELSE << >>

----------------------------------------------------------------------------
(* The state before main() has built the bot *)

MainInit ==
    /\ pc = "start"
    /\ template_day = None
    /\ template_night = None
    /\ monitor = None
    /\ skip_initialize = FALSE
    /\ top_left = <<0, 0>>
    /\ template_h = 0
    /\ template_w = 0
    /\ last_button_push = 0
    /\ start_time = 0
    /\ clock = 0
    /\ tick = "none"
    /\ events = << >>
    /\ locals = << >>

----------------------------------------------------------------------------
(* DinoBot.__init__ *)

Construct ==
    /\ pc = "start"
    /\ \E mon \in Monitors, original_day \in ImreadResults,
          original_night \in ImreadResults, d1 \in Steps, d2 \in Steps :
            /\ monitor' = mon
            /\ template_day' = ResizeTemplate(original_day, mon)
            /\ template_night' = ResizeTemplate(original_night, mon)
            /\ last_button_push' = clock + d1
            /\ start_time' = clock + d1 + d2
            /\ clock' = clock + d1 + d2
    /\ skip_initialize' = FALSE
    /\ top_left' = <<0, 0>>
    /\ template_h' = 0
    /\ template_w' = 0
    /\ pc' = "constructed"
    /\ UNCHANGED <<tick, events, locals>>

----------------------------------------------------------------------------
(* main(): the steps between construction and play() *)

\* args.open_chrome is true: bot.open_chrome(...), which raises ValueError when
\* the browser cannot be started.
OpenChrome ==
    /\ pc = "constructed"
    /\ \E opened \in BOOLEAN : pc' = IF opened THEN "opened" ELSE "raised"
    /\ UNCHANGED <<template_day, template_night, monitor, skip_initialize, top_left,
                   template_h, template_w, last_button_push, start_time, clock,
                   tick, events, locals>>

\* args.open_chrome is false: main() goes straight to bot.play().
SkipOpenChrome ==
    /\ pc = "constructed"
    /\ pc' = "play"
    /\ UNCHANGED <<template_day, template_night, monitor, skip_initialize, top_left,
                   template_h, template_w, last_button_push, start_time, clock,
                   tick, events, locals>>

\* DinoBot.verify_chrome_dino: sleeps, looks for the Dino once, warns when it is
\* not found; the bot's fields are left alone.
VerifyChromeDino ==
    /\ pc = "opened"
    /\ \E res_night \in MatchResults(monitor, template_night),
          res_day \in MatchResults(monitor, template_day) :
            LET m == FindDinosaur(template_night, template_day, res_night, res_day)
            IN  events' = IF m.found THEN << >>
                          ELSE << <<"print", "Warning: Could not detect the Dino game in Chrome.">> >>
    /\ clock' = clock + wait_seconds
    /\ pc' = "play"
    /\ UNCHANGED <<template_day, template_night, monitor, skip_initialize, top_left,
                   template_h, template_w, last_button_push, start_time, tick, locals>>

----------------------------------------------------------------------------
(* DinoBot.play: one iteration of the loop with skip_initialize false *)

PlaySearch ==
    /\ pc = "play"
    /\ Searching
    /\ clock <= MaxClock
    /\ \E res_night \in MatchResults(monitor, template_night),
          res_day \in MatchResults(monitor, template_day) :
            LET m == FindDinosaur(template_night, template_day, res_night, res_day)
            IN  /\ top_left' = m.top_left
                /\ template_h' = m.template_h
                /\ template_w' = m.template_w
                /\ locals' = [found |-> m.found, max_val |-> m.max_val] @@ locals
                /\ events' = SearchEvents(m.found)
                /\ IF m.found
                   THEN \E d1 \in Steps, d2 \in Steps :
                        /\ skip_initialize' = TRUE
                        /\ last_button_push' = clock + d1
                        /\ start_time' = clock + d1 + d2
                        /\ clock' = clock + d1 + d2
                        /\ tick' = "found"
                   ELSE /\ tick' = "search"
                        /\ UNCHANGED <<skip_initialize, last_button_push, start_time, clock>>
    /\ UNCHANGED <<pc, template_day, template_night, monitor>>

----------------------------------------------------------------------------
(* DinoBot.play: one iteration of the loop with skip_initialize true *)

\* fine: whether the frame is drawn from the finer set of white-pixel counts;
\* steps: the advances of the clock up to the first reading of the iteration;
\* lags: its advances between two readings inside the iteration.
TrackIteration(fine, steps, lags) ==
    /\ pc = "play"
    /\ ~Searching
    /\ clock <= MaxClock
    /\ \E d1 \in steps :
        LET sky == SkySize(top_left, template_h, monitor)
            t_elapsed == (clock + d1) - start_time
            scale == GetDynamicScaleW(t_elapsed)
            sizes == ObstacleFrameSizes(top_left, template_h, template_w, scale, monitor)
        IN  \E sky_whites \in SkyWhites(sky),
               middle_thresh \in Cv2Threshold(sizes.middle, fine),
               bottom_thresh \in Cv2Threshold(sizes.bottom, fine) :
            LET day == IsDayScene(sky, sky_whites)
                early == [day_scene |-> day, elapsed_time |-> t_elapsed,
                          scale_w |-> scale]
            IN  IF \/ middle_thresh = Cv2Error \/ bottom_thresh = Cv2Error
                   \/ ContrastRaises(middle_thresh) \/ ContrastRaises(bottom_thresh)
                THEN \* cv2.error, or AttributeError in _compute_contrasts
                     /\ pc' = "raised"
                     /\ tick' = "raise"
                     /\ events' = << >>
                     /\ locals' = early @@ locals
                     /\ clock' = clock + d1
                     /\ UNCHANGED <<last_button_push, start_time>>
                ELSE \E d2 \in lags :
                     LET mc == ComputeContrast(middle_thresh)
                         bc == ComputeContrast(bottom_thresh)
                         t_now == clock + d1 + d2
                         is_m == IsObstacle(mc)
                         is_b == IsObstacle(bc)
                         pushed == ActionLastPush(is_b, is_m, t_now, last_button_push)
                         all == [middle_contrast |-> mc, bottom_contrast |-> bc,
                                 now |-> t_now, is_obstacle_middle |-> is_m,
                                 is_obstacle_bottom |-> is_b] @@ early @@ locals
                     IN  /\ pc' = "play"
                         /\ tick' = "track"
                         /\ locals' = all
                         /\ IF IdleTooLong(t_now, pushed)
                            THEN \E d3 \in lags :
                                 LET reset == IdleReset(t_now, t_now + d3)
                                 IN  /\ events' = ActionEvents(is_b, is_m, t_elapsed) \o IdleEvents
                                     /\ start_time' = reset.start_time
                                     /\ last_button_push' = reset.last_button_push
                                     /\ clock' = t_now + d3
                            ELSE /\ events' = ActionEvents(is_b, is_m, t_elapsed)
                                 /\ last_button_push' = pushed
                                 /\ clock' = t_now
                                 /\ UNCHANGED start_time
    /\ UNCHANGED <<template_day, template_night, monitor, skip_initialize, top_left,
                   template_h, template_w>>

PlayTrack == TrackIteration(FALSE, Steps, Steps)

----------------------------------------------------------------------------
(* main(): construction, the optional browser steps, then the search for the
   Dino *)

MainNext ==
    \/ Construct
    \/ OpenChrome
    \/ SkipOpenChrome
    \/ VerifyChromeDino
    \/ PlaySearch

SpecMain == MainInit /\ [][MainNext]_vars

----------------------------------------------------------------------------
(* play() on a bot built with both templates *)

Init ==
    /\ pc = "play"
    /\ monitor \in Monitors
    /\ template_day = ResizeTemplate(DinoImage, monitor)
    /\ template_night = ResizeTemplate(DinoImage, monitor)
    /\ skip_initialize = FALSE
    /\ top_left = <<0, 0>>
    /\ template_h = 0
    /\ template_w = 0
    /\ last_button_push = 0
    /\ start_time \in Steps
    /\ clock = start_time
    /\ tick = "none"
    /\ events = << >>
    /\ locals = << >>

Next ==
    \/ PlaySearch
    \/ PlayTrack

Spec == Init /\ [][Next]_vars

----------------------------------------------------------------------------
(* One tracking iteration alone: the Dino has just been found, the time that
   passes before the iteration and the frame are drawn from the input sets *)

EvalLocs(mon, t) ==
    {<<x, y>> : x \in {0, mon.width - 3 * t.w, mon.width - 2 * t.w, mon.width - t.w},
                y \in {0, mon.height - t.h}}

EvalInit ==
    /\ pc = "play"
    /\ monitor \in Monitors
    /\ template_day = ResizeTemplate(DinoImage, monitor)
    /\ template_night = ResizeTemplate(DinoImage, monitor)
    /\ skip_initialize = TRUE
    /\ top_left \in EvalLocs(monitor, template_day)
    /\ template_h = template_day.h
    /\ template_w = template_day.w
    /\ start_time = 0
    /\ clock = 0
    /\ last_button_push = 0
    /\ tick = "found"
    /\ events = FoundEvents
    /\ locals = [found |-> TRUE, max_val |-> confidence_threshold]

EvalTrack ==
    /\ tick = "found"
    /\ TrackIteration(TRUE, 0..MaxElapsed, {0})

EvalNext == EvalTrack

SpecEval == EvalInit /\ [][EvalNext]_vars

----------------------------------------------------------------------------
(* Properties *)

KeyEvents(ev) == SelectSeq(ev, LAMBDA e : e[1] # "print")

JumpPress == << <<"press", "space">> >>

JumpThenDuck ==
    << <<"keyDown", "space">>, <<"keyUp", "space">>, <<"sleep", <<1, 50>> >>,
       <<"keyDown", "down">>, <<"keyUp", "down">> >>

DuckHold == << <<"keyDown", "down">>, <<"sleep", <<2, 5>> >>, <<"keyUp", "down">> >>

\* A contrast n/d lies strictly between 0.1 and 0.9.
Present(c) == 10 * c[1] > c[2] /\ 10 * c[1] < 9 * c[2]

BottomPresent == Present(locals.bottom_contrast)
MiddlePresent == Present(locals.middle_contrast)

\* The step is a tracking iteration that meets no obstacle and whose idle
\* check finds more than idle_reset_time since the last action.
IdleCase ==
    /\ tick' = "track"
    /\ ~Present(locals'.bottom_contrast)
    /\ ~Present(locals'.middle_contrast)
    /\ locals'.now - last_button_push > 7

\* C1, as amended: in a tracking iteration whose idle check finds
\* now - last_button_push > idle_reset_time, exactly one jump press is issued,
\* last_button_push becomes now, and start_time becomes the reading of the
\* clock taken after the press, which is not before now.
C1_IdleReset ==
    [][IdleCase => /\ KeyEvents(events') = JumpPress
                   /\ last_button_push' = locals'.now
                   /\ start_time' >= locals'.now
                   /\ start_time' = clock']_vars

\* C1 as stated: after the idle reset start_time and last_button_push are the
\* same moment, now.
C1_Original ==
    [][IdleCase => /\ KeyEvents(events') = JumpPress
                   /\ last_button_push' = locals'.now
                   /\ start_time' = locals'.now]_vars

C1_Witness ==
    /\ tick = "track"
    /\ events = IdleEvents
    /\ last_button_push = locals.now
    /\ start_time > last_button_push

\* C2: a tracking iteration with a bottom obstacle emits jump key-down, jump
\* key-up, sleep(post_jump_duck_sleep), duck key-down, duck key-up when
\* elapsed_time >= late_game_time and one jump press otherwise, and leaves
\* last_button_push equal to its now.
C2_BottomObstacle ==
    (tick = "track" /\ BottomPresent) =>
        /\ last_button_push = locals.now
        /\ IF locals.elapsed_time >= 30
           THEN events = JumpThenDuck
           ELSE events = JumpPress

C2_Witness ==
    /\ tick = "track"
    /\ BottomPresent
    /\ locals.elapsed_time >= 30
    /\ events = JumpThenDuck

\* C3: the bottom band has priority over the middle band: with both present
\* only the jump action is made and the duck is not held; with the middle band
\* alone the duck key is pressed, held for duck_time and released, and
\* last_button_push becomes now; with neither, the action selection emits
\* nothing and leaves last_button_push as it was.
C3_Priority ==
    /\ [](tick = "track" =>
            /\ (BottomPresent /\ MiddlePresent) =>
                   /\ events \in {JumpPress, JumpThenDuck}
                   /\ \A i \in DOMAIN events : events[i] # <<"sleep", <<2, 5>> >>
            /\ (MiddlePresent /\ ~BottomPresent) =>
                   /\ events = DuckHold
                   /\ last_button_push = locals.now
            /\ (~MiddlePresent /\ ~BottomPresent) => events \in {<< >>, IdleEvents})
    /\ [][(/\ tick' = "track"
           /\ ~Present(locals'.bottom_contrast)
           /\ ~Present(locals'.middle_contrast)
           /\ locals'.now - last_button_push <= 7)
          => (events' = << >> /\ last_button_push' = last_button_push)]_vars

C3_Witness ==
    /\ tick = "track"
    /\ BottomPresent
    /\ MiddlePresent
    /\ events = JumpPress

\* C4: scale_w is non-decreasing in the elapsed time, is init_scale_w at 0,
\* is late_scale_w from late_game_time on, and is the linear interpolation
\* init_scale_w + (elapsed/late_game_time) * (late_scale_w - init_scale_w)
\* below late_game_time; at 15 seconds it is 2.75.
C4_ScaleRamp ==
    tick \in {"track", "raise"} =>
        LET e == locals.elapsed_time
            s == locals.scale_w
        IN  /\ (e = 0 => s = <<3, 2>>)
            /\ (e >= 30 => s = <<4, 1>>)
            /\ (e < 30 => RatMul(RatSub(s, <<3, 2>>), <<30, 1>>)
                            = RatMul(<<e, 1>>, RatSub(<<4, 1>>, <<3, 2>>)))
            /\ (e = 15 => s = <<11, 4>>)
            /\ \A e0 \in 0..e : RatLe(GetDynamicScaleW(e0), s)

C4_Witness ==
    /\ tick = "track"
    /\ locals.elapsed_time = 15
    /\ locals.scale_w = <<11, 4>>

\* C5: a band is an obstacle exactly when its contrast is strictly between
\* obstacle_min_contrast and obstacle_max_contrast; a contrast of 0, of 1 or
\* equal to a threshold is not, and two uniform bands trigger no jump or duck
\* action (the only events such an iteration can emit are the idle reset's).
C5_IsObstacle ==
    tick = "track" =>
        LET Uniform(c) == c \in {<<0, 1>>, <<1, 1>>}
            Excluded(c) == c \in {<<0, 1>>, <<1, 1>>, <<1, 10>>, <<9, 10>>}
        IN  /\ locals.is_obstacle_bottom <=> BottomPresent
            /\ locals.is_obstacle_middle <=> MiddlePresent
            /\ Excluded(locals.bottom_contrast) => ~locals.is_obstacle_bottom
            /\ Excluded(locals.middle_contrast) => ~locals.is_obstacle_middle
            /\ (Uniform(locals.bottom_contrast) /\ Uniform(locals.middle_contrast))
                   => events \in {<< >>, IdleEvents}

C5_Witness ==
    /\ tick = "track"
    /\ locals.bottom_contrast = <<1, 10>>
    /\ locals.middle_contrast = <<1, 1>>
    /\ ~locals.is_obstacle_bottom
    /\ events = << >>

\* C6: while the loop is searching, the iteration in which the Dino is found
\* included, no scene classification, band extraction, contrast, obstacle
\* action or idle reset is made; an iteration that does not find the Dino
\* emits no event and the loop keeps searching.
C6_NoEvaluationWhileSearching ==
    /\ tick \in {"none", "search", "found"} =>
           /\ DOMAIN locals \subseteq {"found", "max_val"}
           /\ events \in {<< >>, FoundEvents}
    /\ tick = "search" => (events = << >> /\ ~skip_initialize)
    /\ ~skip_initialize => tick \in {"none", "search"}

C6_Witness ==
    /\ tick = "search"
    /\ locals.max_val = <<3, 4>>
    /\ ~skip_initialize
    /\ top_left # <<0, 0>>

\* C7: once tracking, the loop never searches or localizes again, and every
\* tracking iteration leaves top_left, template_h and template_w unchanged.
C7_NoRelocalization ==
    [][skip_initialize =>
          /\ skip_initialize'
          /\ tick' \in {"track", "raise"}
          /\ top_left' = top_left
          /\ template_h' = template_h
          /\ template_w' = template_w
          /\ locals'.found = locals.found
          /\ locals'.max_val = locals.max_val]_vars

C7_Witness ==
    /\ skip_initialize
    /\ tick = "track"
    /\ events = IdleEvents
    /\ top_left # <<0, 0>>

\* C8, as amended: the searching iteration finds the Dino exactly when the
\* best score is at least confidence_threshold; it then stores the match,
\* issues one jump press, sets last_button_push to a reading of the clock and
\* start_time to the next reading, which is not before it, and the next
\* iteration is a tracking iteration.
C8_FoundTick ==
    /\ [](/\ tick \in {"search", "found"} =>
                (tick = "found" <=> 5 * locals.max_val[1] >= 4 * locals.max_val[2])
          /\ tick = "found" =>
                /\ skip_initialize
                /\ KeyEvents(events) = JumpPress
                /\ top_left \in MatchLocs(monitor, template_day)
                /\ template_h = template_day.h
                /\ template_w = template_day.w
                /\ last_button_push <= start_time
                /\ start_time = clock)
    /\ [][tick = "found" => tick' \in {"track", "raise"}]_vars

\* C8 as stated: start_time and last_button_push are set to the same moment.
C8_Original ==
    tick = "found" =>
        /\ skip_initialize
        /\ KeyEvents(events) = JumpPress
        /\ start_time = last_button_push

C8_Witness ==
    /\ tick = "found"
    /\ locals.max_val = <<4, 5>>
    /\ start_time > last_button_push

\* C9 as stated: a tracking iteration with a band that is out of the frame or
\* has no area completes without an error and gives that band the contrast 0,
\* and every contrast lies in [0, 1].
C9_Claim ==
    tick \in {"track", "raise"} =>
        LET sizes == ObstacleFrameSizes(top_left, template_h, template_w,
                                        locals.scale_w, monitor)
            InUnit(c) == 0 <= c[1] /\ c[1] <= c[2]
        IN  /\ (sizes.middle = 0 \/ sizes.bottom = 0) => tick = "track"
            /\ tick = "track" =>
                  /\ sizes.middle = 0 => locals.middle_contrast = <<0, 1>>
                  /\ sizes.bottom = 0 => locals.bottom_contrast = <<0, 1>>
                  /\ InUnit(locals.middle_contrast)
                  /\ InUnit(locals.bottom_contrast)

\* C10 as stated: with neither template loaded the construction fails and
\* play() is never entered; with one template loaded the bot starts and the
\* localization uses that template alone.
C10_Claim ==
    /\ (template_day = None /\ template_night = None) =>
           (pc \in {"start", "raised"} /\ tick = "none")
    /\ (tick \in {"search", "found"} /\ template_day = None /\ template_w > 0) =>
           (template_h = template_night.h /\ template_w = template_night.w)
    /\ (tick \in {"search", "found"} /\ template_night = None /\ template_w > 0) =>
           (template_h = template_day.h /\ template_w = template_day.w)

====
